---- MODULE Spec2Model ----
(***************************************************************************)
(* Energy dashboard (src/Assignment-5/energy_dashboard.py): ingest_data    *)
(* reads the CSV files of a directory into one combined table, and a       *)
(* BuildingManager aggregates that table, plots it and exports it.         *)
(*                                                                         *)
(* A timestamp is [day, hour]: day 0 is Monday 2024-01-01, so day 6 is a    *)
(* Sunday and day 7 the Monday after it.  kWh values are naturals.  NaT    *)
(* and NaN are the values pandas puts where a cell does not parse.         *)
(*                                                                         *)
(* Gradebook (src/gradebook.py/gradebook.py) and calorie tracker (src/unit *)
(* 1  daily calorie taker/tracker.py): scripts that read the lines typed   *)
(* at standard input, print, and write files of the working directory.     *)
(* input() waits when no line is left, so a step that needs more lines     *)
(* than were typed is not taken.  Marks and calories are whole numbers.    *)
(***************************************************************************)
EXTENDS Integers, Sequences, FiniteSets, TLC

VARIABLES
    dir_exists,              \* data_dir.exists()
    files,                   \* the *.csv files of data_dir: name -> what pd.read_csv gives
    pc,                      \* "start", "ingested" (ingest_data returned), "managed" (manager built)
    combined,                \* the table ingest_data returned (the caller's df)
    log,                     \* the records passed to logger
    read_calls,              \* the file names passed to pd.read_csv, in call order
    exc,                     \* the exception the last call raised, or "none"
    df,                      \* BuildingManager.df
    summary_stats,           \* BuildingManager.summary_stats
    daily_totals,            \* BuildingManager.daily_totals
    weekly_avg_by_building,  \* BuildingManager.weekly_avg_by_building
    peak_hours_by_building,  \* BuildingManager.peak_hours_by_building
    dashboard,               \* what generate_dashboard_plots drew (dashboard.png)
    summary_csv,             \* building_summary.csv
    printed,                 \* the lines export_results printed
    prev,                    \* the aggregates of the previous run of main
    entry,                   \* how a script was started: "gradebook.py", "main()", "tracker.py"
    at,                      \* the statement the script is at
    stdin,                   \* the lines typed that input() has not read yet
    stdout,                  \* the lines printed
    disk,                    \* the files of the working directory: name -> rows
    uncaught,                \* the exception that ended the script, or "none"
    total_meals,             \* tracker.py: total_meals
    limit,                   \* tracker.py: limit
    meal_names,              \* tracker.py: meal_names
    meal_calories,           \* tracker.py: meal_calories
    total_cal,               \* tracker.py: total_cal
    avg_cal                  \* tracker.py: avg_cal

\* The state of the energy dashboard.
energy_vars == <<dir_exists, files, pc, combined, log, read_calls, exc, df, summary_stats,
                 daily_totals, weekly_avg_by_building, peak_hours_by_building, dashboard,
                 summary_csv, printed, prev>>

\* The process state of a script that reads standard input.
script_vars == <<entry, at, stdin, stdout, disk, uncaught>>

\* The module-level names of tracker.py.
tracker_vars == <<total_meals, limit, meal_names, meal_calories, total_cal, avg_cal>>

vars == <<energy_vars, script_vars, tracker_vars>>

-----------------------------------------------------------------------------
(* Bounds of the inputs *)

\* Rows over all files of a directory, for the directories with missing,
\* unreadable and malformed files that ingest_data is run on.
MaxRows == 2

\* Readings over all files of a directory, for the directories of well-formed
\* files that the aggregations are run on.
MaxReadings == 3

\* Readings of the file of a directory, for the directories of one well-formed
\* file that the whole pipeline is run on.
MaxPipelineReadings == 2

\* The file names a directory may hold, as sorted() orders them.
FileOrder == <<"a.csv", "b.csv">>

BuildingOrder == <<"A", "B">>

SeqsUpTo(S, n) == UNION {[1..k -> S] : k \in 0..n}

-----------------------------------------------------------------------------
(* Cells, rows and tables *)

NaT == [day |-> -1, hour |-> -1]

NaN == -1

\* pd.to_datetime(..., errors='coerce') of one cell.
to_datetime(cell) ==
    CASE cell = "2024-01-07 09:00" -> [day |-> 6, hour |-> 9]
      [] cell = "2024-01-07 17:00" -> [day |-> 6, hour |-> 17]
      [] cell = "2024-01-08 09:00" -> [day |-> 7, hour |-> 9]
      [] OTHER -> NaT

\* pd.to_numeric(..., errors='coerce') of one cell.
to_numeric(cell) ==
    CASE cell = "1" -> 1
      [] cell = "2" -> 2
      [] OTHER -> NaN

\* A DataFrame, a Series or None: its type, its column labels and its rows.
Frame(kind, columns, rows) == [kind |-> kind, columns |-> columns, rows |-> rows]

None == Frame("None", <<>>, <<>>)

\* pd.DataFrame()
EmptyDataFrame == Frame("DataFrame", <<>>, <<>>)

\* DataFrame.empty / Series.empty
IsEmpty(frame) == frame.rows = <<>>

LogRecord(level, message, subject) == [level |-> level, message |-> message, subject |-> subject]

RequiredColumns == {"Timestamp", "Building", "kWh"}

\* What pd.read_csv gives for a file: an exception, or a frame with the columns of
\* the header row; a cell of a column the file does not have is "".
CsvFile(variant, rows) ==
    IF variant.read # "ok"
    THEN [read |-> variant.read, columns |-> {}, rows |-> <<>>]
    ELSE [read |-> "ok", columns |-> variant.columns,
          rows |-> [i \in DOMAIN rows |->
                     [Timestamp |-> IF "Timestamp" \in variant.columns
                                    THEN rows[i].Timestamp ELSE "",
                      Building  |-> IF "Building" \in variant.columns
                                    THEN rows[i].Building ELSE "",
                      kWh       |-> IF "kWh" \in variant.columns
                                    THEN rows[i].kWh ELSE ""]]]

\* A directory holding a.csv when va is not absent and b.csv when vb is not.
Directory(va, ra, vb, rb) ==
    [n \in {m \in {"a.csv", "b.csv"} :
              (m = "a.csv" /\ va.read # "absent") \/ (m = "b.csv" /\ vb.read # "absent")} |->
        IF n = "a.csv" THEN CsvFile(va, ra) ELSE CsvFile(vb, rb)]

WellFormed == [read |-> "ok", columns |-> RequiredColumns]

FileVariants ==
    {[read |-> r, columns |-> {}] : r \in {"absent", "FileNotFoundError", "Exception"}}
    \cup {[read |-> "ok", columns |-> RequiredColumns \ missing] :
             missing \in {{}, {"Timestamp"}, {"Building"}, {"kWh"}}}

RawRows ==
    [Timestamp : {"2024-01-08 09:00", "2024-01-07 09:00", "not-a-date"},
     Building : {"A"},
     kWh : {"1", "abc"}]

\* Directories with missing, unreadable and malformed files: at most MaxRows rows.
RawDirectories ==
    {Directory(va, SubSeq(t, 1, k), vb, SubSeq(t, k + 1, Len(t))) :
        <<t, k, va, vb>> \in
            {x \in SeqsUpTo(RawRows, MaxRows) \X (0..MaxRows) \X FileVariants \X FileVariants :
                x[2] <= Len(x[1])}}

Readings ==
    [Timestamp : {"2024-01-07 17:00", "2024-01-08 09:00"},
     Building : {"A", "B"},
     kWh : {"1", "2"}]

\* Directories of two well-formed files holding at most n readings.
CleanDirectories(n) ==
    {Directory(WellFormed, SubSeq(t, 1, k), WellFormed, SubSeq(t, k + 1, Len(t))) :
        <<t, k>> \in {x \in SeqsUpTo(Readings, n) \X (0..n) : x[2] <= Len(x[1])}}

\* Directories of one well-formed file holding at most n readings.
SingleFileDirectories(n) ==
    {Directory(WellFormed, t, [read |-> "absent"], <<>>) : t \in SeqsUpTo(Readings, n)}

-----------------------------------------------------------------------------
(* ingest_data *)

\* sorted(data_dir.glob("*.csv"))
csv_files(fs) == SelectSeq(FileOrder, LAMBDA n : n \in DOMAIN fs)

TimestampKey(ts) == ts.day * 24 + ts.hour

\* One step of the sort: r goes behind every row whose Timestamp is not later.
RECURSIVE InsertByTimestamp(_, _)
InsertByTimestamp(sorted, r) ==
    IF sorted = <<>> THEN <<r>>
    ELSE IF TimestampKey(sorted[Len(sorted)].Timestamp) <= TimestampKey(r.Timestamp)
         THEN Append(sorted, r)
         ELSE Append(InsertByTimestamp(SubSeq(sorted, 1, Len(sorted) - 1), r),
                     sorted[Len(sorted)])

\* df.sort_values('Timestamp')
RECURSIVE sort_values_Timestamp(_)
sort_values_Timestamp(rows) ==
    IF rows = <<>> THEN <<>>
    ELSE InsertByTimestamp(sort_values_Timestamp(SubSeq(rows, 1, Len(rows) - 1)),
                           rows[Len(rows)])

\* The column checks without the check for 'Building'.
MissingColumn_NoBuildingCheck(f) ==
    IF "Timestamp" \notin f.columns THEN "Missing 'Timestamp' column"
    ELSE IF "kWh" \notin f.columns THEN "Missing 'kWh' column"
    ELSE ""

\* The column checks of one file: the message of the first one that fails, or "".
MissingColumn(f) ==
    IF "Timestamp" \notin f.columns THEN "Missing 'Timestamp' column"
    ELSE IF "Building" \notin f.columns THEN "Missing 'Building' column"
    ELSE IF "kWh" \notin f.columns THEN "Missing 'kWh' column"
    ELSE ""

\* The body of the try block for one file: it raises, skips the file, or appends
\* the file's rows (Timestamp parsed, NaT rows dropped, sorted) to all_rows.
\* origin names the file and line a row was read from; it is no column.
TryFile(f, name) ==
    IF f.read # "ok"
    THEN [outcome |-> "raise", raised |-> f.read, rows |-> <<>>, log |-> {}]
    ELSE IF MissingColumn(f) # ""
    THEN [outcome |-> "skip", raised |-> "none", rows |-> <<>>,
          log |-> {LogRecord("WARNING", MissingColumn(f), name)}]
    ELSE LET converted == [i \in DOMAIN f.rows |->
                             [Timestamp |-> to_datetime(f.rows[i].Timestamp),
                              Building |-> f.rows[i].Building,
                              kWh |-> f.rows[i].kWh,
                              origin |-> <<name, i>>]]
             kept == SelectSeq(converted, LAMBDA r : r.Timestamp # NaT)
         IN [outcome |-> "append", raised |-> "none",
             rows |-> sort_values_Timestamp(kept),
             log |-> {LogRecord("INFO", "Ingested", name)}]

\* Except clauses that log the exception and raise it again.
ExceptClause_Reraise(raised, name) ==
    [propagates |-> raised,
     log |-> {LogRecord("ERROR",
                        IF raised = "FileNotFoundError" THEN "File not found"
                                                        ELSE "Error reading file",
                        name)}]

\* The except clauses: the exception is logged and the loop continues.
ExceptClause(raised, name) ==
    [propagates |-> "none",
     log |-> {LogRecord("ERROR",
                        IF raised = "FileNotFoundError" THEN "File not found"
                                                        ELSE "Error reading file",
                        name)}]

\* The for loop over csv_files from file i on; acc is what the loop has built.
RECURSIVE IngestLoop(_, _, _, _)
IngestLoop(fs, names, i, acc) ==
    IF i > Len(names) \/ acc.exc # "none" THEN acc
    ELSE LET name == names[i]
             t == TryFile(fs[name], name)
             h == ExceptClause(t.raised, name)
         IN IngestLoop(fs, names, i + 1,
                [all_rows |-> IF t.outcome = "append" THEN Append(acc.all_rows, t.rows)
                                                      ELSE acc.all_rows,
                 log |-> acc.log \cup t.log \cup (IF t.outcome = "raise" THEN h.log ELSE {}),
                 reads |-> Append(acc.reads, name),
                 exc |-> IF t.outcome = "raise" THEN h.propagates ELSE "none"])

\* pd.concat(all_rows, ignore_index=True)
RECURSIVE concat(_)
concat(frames) ==
    IF frames = <<>> THEN <<>> ELSE frames[1] \o concat(Tail(frames))

\* pd.to_numeric on the kWh column without the dropna that follows it.
NumericKwh_NoDropna(rows) ==
    [i \in DOMAIN rows |-> [rows[i] EXCEPT !.kWh = to_numeric(rows[i].kWh)]]

\* pd.to_numeric on the kWh column, then dropna(subset=['kWh']).
NumericKwh(rows) ==
    SelectSeq([i \in DOMAIN rows |-> [rows[i] EXCEPT !.kWh = to_numeric(rows[i].kWh)]],
              LAMBDA r : r.kWh # NaN)

\* A missing data_dir that is not checked for: the glob of it raises.
MissingDirectory_Unchecked ==
    [df |-> None, reads |-> <<>>, exc |-> "FileNotFoundError", log |-> {}]

\* What ingest_data does when data_dir does not exist.
MissingDirectory ==
    [df |-> EmptyDataFrame, reads |-> <<>>, exc |-> "none",
     log |-> {LogRecord("ERROR", "Data directory does not exist", "data_dir")}]

\* ingest_data(data_dir): the table it returns, what it logs, the files it reads
\* and the exception it lets through.
IngestData(exists, fs) ==
    IF ~exists THEN MissingDirectory
    ELSE LET names == csv_files(fs)
             start == [all_rows |-> <<>>, reads |-> <<>>, exc |-> "none",
                       log |-> IF names = <<>>
                               THEN {LogRecord("WARNING", "No CSV files found", "data_dir")}
                               ELSE {}]
             done == IngestLoop(fs, names, 1, start)
         IN IF done.exc # "none"
            THEN [df |-> None, reads |-> done.reads, exc |-> done.exc, log |-> done.log]
            ELSE IF done.all_rows = <<>>
            THEN [df |-> EmptyDataFrame, reads |-> done.reads, exc |-> "none",
                  log |-> done.log \cup
                          {LogRecord("WARNING", "No valid data ingested.", "data_dir")}]
            ELSE [df |-> Frame("DataFrame", <<"Building", "kWh">>,
                               NumericKwh(concat(done.all_rows))),
                  reads |-> done.reads, exc |-> "none", log |-> done.log]

-----------------------------------------------------------------------------
(* BuildingManager: the aggregations *)

\* The group keys of groupby('Building'), sorted.
GroupKeys(rows) ==
    SelectSeq(BuildingOrder, LAMBDA b : \E i \in DOMAIN rows : rows[i].Building = b)

\* The rows of one group, in table order.
Group(rows, b) == SelectSeq(rows, LAMBDA r : r.Building = b)

RECURSIVE SumKwh(_)
SumKwh(rows) == IF rows = <<>> THEN 0 ELSE rows[1].kWh + SumKwh(Tail(rows))

MinKwh(rows) == CHOOSE v \in {rows[i].kWh : i \in DOMAIN rows} :
                    \A i \in DOMAIN rows : v <= rows[i].kWh

MaxKwh(rows) == CHOOSE v \in {rows[i].kWh : i \in DOMAIN rows} :
                    \A i \in DOMAIN rows : v >= rows[i].kWh

RECURSIVE Gcd(_, _)
Gcd(a, b) == IF b = 0 THEN a ELSE Gcd(b, a % b)

\* A quotient, as the fraction in lowest terms; [num |-> 0, den |-> 0] is NaN.
Quotient(n, d) ==
    IF d = 0 THEN [num |-> 0, den |-> 0]
    ELSE [num |-> n \div Gcd(n, d), den |-> d \div Gcd(n, d)]

MeanKwh(rows) == Quotient(SumKwh(rows), Len(rows))

\* One step of an ascending sort: r goes behind every row whose total is not more.
RECURSIVE InsertByTotal_Ascending(_, _)
InsertByTotal_Ascending(sorted, r) ==
    IF sorted = <<>> THEN <<r>>
    ELSE IF sorted[Len(sorted)].total_kWh <= r.total_kWh
         THEN Append(sorted, r)
         ELSE Append(InsertByTotal_Ascending(SubSeq(sorted, 1, Len(sorted) - 1), r),
                     sorted[Len(sorted)])

\* One step of the descending sort: r goes behind every row whose total is not less.
RECURSIVE InsertByTotal(_, _)
InsertByTotal(sorted, r) ==
    IF sorted = <<>> THEN <<r>>
    ELSE IF sorted[Len(sorted)].total_kWh >= r.total_kWh
         THEN Append(sorted, r)
         ELSE Append(InsertByTotal(SubSeq(sorted, 1, Len(sorted) - 1), r),
                     sorted[Len(sorted)])

\* sort_values('total_kWh', ascending=False)
RECURSIVE sort_values_total(_)
sort_values_total(rows) ==
    IF rows = <<>> THEN <<>>
    ELSE InsertByTotal(sort_values_total(SubSeq(rows, 1, Len(rows) - 1)), rows[Len(rows)])

\* groupby('Building')['kWh'].agg(mean, min, max, sum)
GroupedAgg(rows) ==
    LET keys == GroupKeys(rows)
    IN [i \in DOMAIN keys |->
          LET g == Group(rows, keys[i])
          IN [Building |-> keys[i], mean_kWh |-> MeanKwh(g), min_kWh |-> MinKwh(g),
              max_kWh |-> MaxKwh(g), total_kWh |-> SumKwh(g)]]

SummaryColumns == <<"mean_kWh", "min_kWh", "max_kWh", "total_kWh">>

\* calculate_summary_statistics without the check for an empty table: the groupby
\* of a table with no Building column raises KeyError.
SummaryStatistics_NoEmptyCheck(m) ==
    IF IsEmpty(m.df)
    THEN [summary_stats |-> m.summary_stats, exc |-> "KeyError", log |-> {}]
    ELSE [summary_stats |-> Frame("DataFrame", SummaryColumns,
                                  sort_values_total(GroupedAgg(m.df.rows))),
          exc |-> "none",
          log |-> {LogRecord("INFO", "Calculated summary statistics", "manager")}]

\* calculate_summary_statistics on the manager m: summary_stats after the call, the
\* log record and the exception raised.
SummaryStatistics(m) ==
    IF IsEmpty(m.df)
    THEN [summary_stats |-> EmptyDataFrame, exc |-> "none",
          log |-> {LogRecord("WARNING", "DataFrame is empty; cannot compute summary statistics.",
                             "manager")}]
    ELSE [summary_stats |-> Frame("DataFrame", SummaryColumns,
                                  sort_values_total(GroupedAgg(m.df.rows))),
          exc |-> "none",
          log |-> {LogRecord("INFO", "Calculated summary statistics", "manager")}]

Days(rows) == {rows[i].Timestamp.day : i \in DOMAIN rows}

FirstDay(rows) == CHOOSE d \in Days(rows) : \A e \in Days(rows) : d <= e

LastDay(rows) == CHOOSE d \in Days(rows) : \A e \in Days(rows) : d >= e

\* df['kWh'].resample('D').max(): the largest reading of every day instead of the sum.
DailyTotals_Max(rows) ==
    [i \in 1..(LastDay(rows) - FirstDay(rows) + 1) |->
        LET d == FirstDay(rows) + i - 1
            on == SelectSeq(rows, LAMBDA r : r.Timestamp.day = d)
        IN [day |-> d, kWh |-> IF on = <<>> THEN 0 ELSE MaxKwh(on)]]

\* df['kWh'].resample('D').sum(): one entry for every day from the first to the last.
DailyTotals(rows) ==
    [i \in 1..(LastDay(rows) - FirstDay(rows) + 1) |->
        LET d == FirstDay(rows) + i - 1
        IN [day |-> d, kWh |-> SumKwh(SelectSeq(rows, LAMBDA r : r.Timestamp.day = d))]]

\* The label of the 'W' bin of a day: the Sunday that ends its week.
WeekEnd(d) == d + (6 - (d % 7))

\* The mean of building b in the week ending on w; NaN when b has no bin for w or
\* no reading in it.
WeeklyMean(rows, b, w) ==
    MeanKwh(SelectSeq(Group(rows, b), LAMBDA r : WeekEnd(r.Timestamp.day) = w))

\* groupby('Building')['kWh'].resample('W').mean().unstack(level=0): one row for
\* every week some building has a bin for, one column for every building.
WeeklyAverages(rows) ==
    LET keys == GroupKeys(rows)
        weeks == [i \in 1..((WeekEnd(LastDay(rows)) - WeekEnd(FirstDay(rows))) \div 7 + 1) |->
                    WeekEnd(FirstDay(rows)) + 7 * (i - 1)]
        binned == SelectSeq(weeks, LAMBDA w :
                     \E i \in DOMAIN keys :
                        /\ WeekEnd(FirstDay(Group(rows, keys[i]))) <= w
                        /\ w <= WeekEnd(LastDay(Group(rows, keys[i]))))
    IN Frame("DataFrame", keys,
             [i \in DOMAIN binned |->
                [week |-> binned[i],
                 mean |-> [k \in DOMAIN keys |-> WeeklyMean(rows, keys[k], binned[i])]]])

\* g['kWh'].idxmax(): the index label of the first row with the largest kWh.
idxmax(g) ==
    LET i == CHOOSE i \in DOMAIN g :
                 /\ g[i].kWh = MaxKwh(g)
                 /\ \A j \in 1..(i - 1) : g[j].kWh # MaxKwh(g)
    IN g[i].Timestamp

\* g.loc[label][['Hour', 'kWh']]: the index of a group is its Timestamps, so one
\* matching row gives a Series and several give a DataFrame of all of them.
PeakOfGroup(g) ==
    LET hits == SelectSeq(g, LAMBDA r : r.Timestamp = idxmax(g))
    IN [kind |-> IF Len(hits) = 1 THEN "Series" ELSE "DataFrame", rows |-> hits]

\* groupby('Building').apply(...) and the renaming of its columns.  Series of all
\* groups stack to one row a building; DataFrames concatenate under the group
\* keys; a mix concatenates to a frame with a third column, and renaming its
\* columns to two names raises ValueError.
PeakHours(rows) ==
    LET keys == GroupKeys(rows)
        peaks == [i \in DOMAIN keys |-> PeakOfGroup(Group(rows, keys[i]))]
        kinds == {peaks[i].kind : i \in DOMAIN keys}
        Stacked(i) ==
            <<[index |-> <<keys[i]>>,
               cells |-> <<peaks[i].rows[1].Timestamp.hour, peaks[i].rows[1].kWh>>]>>
        Keyed(i) ==
            [j \in DOMAIN peaks[i].rows |->
                [index |-> <<keys[i], peaks[i].rows[j].Timestamp>>,
                 cells |-> <<peaks[i].rows[j].Timestamp.hour, peaks[i].rows[j].kWh>>]]
        Mixed(i) ==
            IF peaks[i].kind = "DataFrame"
            THEN [j \in DOMAIN peaks[i].rows |->
                    [index |-> <<keys[i], peaks[i].rows[j].Timestamp>>,
                     cells |-> <<peaks[i].rows[j].Timestamp.hour, peaks[i].rows[j].kWh, NaN>>]]
            ELSE <<[index |-> <<keys[i], "Hour">>,
                    cells |-> <<NaN, NaN, peaks[i].rows[1].Timestamp.hour>>],
                   [index |-> <<keys[i], "kWh">>,
                    cells |-> <<NaN, NaN, peaks[i].rows[1].kWh>>]>>
    IN IF kinds = {"Series"}
       THEN [frame |-> Frame("DataFrame", <<"PeakHour", "Peak_kWh">>,
                             concat([i \in DOMAIN keys |-> Stacked(i)])),
             exc |-> "none"]
       ELSE IF kinds = {"DataFrame"}
       THEN [frame |-> Frame("DataFrame", <<"PeakHour", "Peak_kWh">>,
                             concat([i \in DOMAIN keys |-> Keyed(i)])),
             exc |-> "none"]
       ELSE [frame |-> Frame("DataFrame", <<"Hour", "kWh", "Timestamp">>,
                             concat([i \in DOMAIN keys |-> Mixed(i)])),
             exc |-> "ValueError"]

\* df_with_hour['Hour'] = df_with_hour.index.hour, on the frame it is assigned to.
HourColumn(frame) ==
    Frame(frame.kind, Append(frame.columns, "Hour"),
          [i \in DOMAIN frame.rows |->
              [Timestamp |-> frame.rows[i].Timestamp, Building |-> frame.rows[i].Building,
               kWh |-> frame.rows[i].kWh, origin |-> frame.rows[i].origin,
               Hour |-> frame.rows[i].Timestamp.hour]])

\* The peak computation working on self.df itself.
TableAfterPeakHours_InPlace(m) == HourColumn(m.df)

\* self.df after the peak computation: df_with_hour is a copy of self.df, so the
\* Hour column goes to the copy and self.df is as it was.
TableAfterPeakHours(m) == m.df

\* calculate_time_trends that adds the new daily totals to the ones it has cached.
TimeTrends_Incremental(m) ==
    IF IsEmpty(m.df)
    THEN [daily_totals |-> EmptyDataFrame,
          weekly_avg_by_building |-> EmptyDataFrame,
          peak_hours_by_building |-> m.peak_hours_by_building,
          df |-> m.df,
          exc |-> "none",
          log |-> {LogRecord("WARNING", "DataFrame is empty; cannot compute time trends.",
                             "manager")}]
    ELSE [daily_totals |->
              Frame("Series", <<"kWh">>,
                    [i \in DOMAIN DailyTotals(m.df.rows) |->
                        [day |-> DailyTotals(m.df.rows)[i].day,
                         kWh |-> DailyTotals(m.df.rows)[i].kWh +
                                 (IF m.daily_totals.kind = "Series"
                                  THEN m.daily_totals.rows[i].kWh ELSE 0)]]),
          weekly_avg_by_building |-> WeeklyAverages(m.df.rows),
          peak_hours_by_building |-> PeakHours(m.df.rows).frame,
          df |-> TableAfterPeakHours(m),
          exc |-> PeakHours(m.df.rows).exc,
          log |-> {LogRecord("INFO", "Computed daily totals and weekly averages.", "manager")}]

\* calculate_time_trends on the manager m: the three fields after the call, the
\* log records and the exception raised.
TimeTrends(m) ==
    IF IsEmpty(m.df)
    THEN [daily_totals |-> EmptyDataFrame,
          weekly_avg_by_building |-> EmptyDataFrame,
          peak_hours_by_building |-> m.peak_hours_by_building,
          df |-> m.df,
          exc |-> "none",
          log |-> {LogRecord("WARNING", "DataFrame is empty; cannot compute time trends.",
                             "manager")}]
    ELSE [daily_totals |-> Frame("Series", <<"kWh">>, DailyTotals(m.df.rows)),
          weekly_avg_by_building |-> WeeklyAverages(m.df.rows),
          peak_hours_by_building |-> PeakHours(m.df.rows).frame,
          df |-> TableAfterPeakHours(m),
          exc |-> PeakHours(m.df.rows).exc,
          log |-> {LogRecord("INFO", "Computed daily totals and weekly averages.", "manager")}]

-----------------------------------------------------------------------------
(* BuildingManager: the dashboard and the export *)

\* The sum of two fractions.
Plus(a, b) == Quotient(a.num * b.den + b.num * a.den, a.den * b.den)

\* DataFrame.mean(axis=0) for building k of the weekly table: the mean over the
\* weeks whose cell is not NaN.
RECURSIVE SumOfMeans(_, _)
SumOfMeans(weeks, k) ==
    IF weeks = <<>> THEN [num |-> 0, den |-> 1]
    ELSE IF weeks[1].mean[k].den = 0 THEN SumOfMeans(Tail(weeks), k)
    ELSE Plus(weeks[1].mean[k], SumOfMeans(Tail(weeks), k))

AverageWeekly(weekly, k) ==
    LET s == SumOfMeans(weekly.rows, k)
        n == Cardinality({i \in DOMAIN weekly.rows : weekly.rows[i].mean[k].den # 0})
    IN [Building |-> weekly.columns[k], value |-> Quotient(s.num, s.den * n)]

\* One step of the descending sort of the bars.
RECURSIVE InsertByValue(_, _)
InsertByValue(sorted, r) ==
    IF sorted = <<>> THEN <<r>>
    ELSE IF sorted[Len(sorted)].value.num * r.value.den >= r.value.num * sorted[Len(sorted)].value.den
         THEN Append(sorted, r)
         ELSE Append(InsertByValue(SubSeq(sorted, 1, Len(sorted) - 1), r),
                     sorted[Len(sorted)])

\* avg_weekly.sort_values(ascending=False)
RECURSIVE sort_values_bars(_)
sort_values_bars(bars) ==
    IF bars = <<>> THEN <<>>
    ELSE InsertByValue(sort_values_bars(SubSeq(bars, 1, Len(bars) - 1)), bars[Len(bars)])

\* One panel of the figure: the placeholder text it shows, or the data it draws.
Placeholder(text) == [text |-> text, data |-> <<>>]

Drawn(data) == [text |-> "", data |-> data]

NoDashboard == [saved |-> FALSE, panels |-> <<>>]

\* summary_stats['total_kWh'].sum()
RECURSIVE TotalConsumption(_)
TotalConsumption(rows) ==
    IF rows = <<>> THEN 0 ELSE rows[1].total_kWh + TotalConsumption(Tail(rows))

\* summary_stats['total_kWh'].idxmax(): the first row with the largest total.
TopBuilding(rows) ==
    rows[CHOOSE i \in DOMAIN rows :
            /\ \A j \in DOMAIN rows : rows[j].total_kWh <= rows[i].total_kWh
            /\ \A j \in 1..(i - 1) : rows[j].total_kWh < rows[i].total_kWh]

\* A line of text with the values formatted into it.
Line(text, name, value) == [text |-> text, name |-> name, value |-> value]

\* The lines of the text panel and of the printed summary when there is data.
SummaryLines(rows, peak, trend) ==
    <<Line("Total campus consumption", "", TotalConsumption(rows)),
      Line("Highest-consuming building", TopBuilding(rows).Building, TopBuilding(rows).total_kWh),
      Line(peak, "", 0),
      Line(trend, "", 0)>>

HasSummary(m) == m.summary_stats.kind # "None" /\ ~IsEmpty(m.summary_stats)

\* The four panels of generate_dashboard_plots on the manager m, with t the
\* trend fields it draws: the fields after the call, the figure saved, the log
\* records and the exception raised.
Figure(m, t) ==
    LET daily == t.daily_totals
        weekly == t.weekly_avg_by_building
        peak == t.peak_hours_by_building
        panel1 == IF daily.kind = "Series" /\ ~IsEmpty(daily)
                  THEN Drawn(daily.rows) ELSE Placeholder("No Daily Data")
        panel2 == IF weekly.kind = "DataFrame" /\ ~IsEmpty(weekly)
                  THEN Drawn(sort_values_bars([k \in DOMAIN weekly.columns |->
                                                  AverageWeekly(weekly, k)]))
                  ELSE Placeholder("No Weekly Data")
        scatter == peak.kind = "DataFrame" /\ ~IsEmpty(peak)
        panel3 == IF scatter THEN Drawn(peak.rows) ELSE Placeholder("No Peak Data")
        panel4 == IF HasSummary(m)
                  THEN Drawn(SummaryLines(m.summary_stats.rows,
                                          "Peak load time: Varies by building (see scatter)",
                                          "Main trend: Campus shows daily variability with weekly patterns."))
                  ELSE Placeholder("No summary available.")
        raised == IF t.exc # "none" THEN t.exc
                  ELSE IF scatter /\ peak.columns # <<"PeakHour", "Peak_kWh">> THEN "KeyError"
                  ELSE "none"
    IN [daily_totals |-> daily, weekly_avg_by_building |-> weekly,
        peak_hours_by_building |-> peak, df |-> t.df, exc |-> raised,
        dashboard |-> IF raised = "none"
                      THEN [saved |-> TRUE, panels |-> <<panel1, panel2, panel3, panel4>>]
                      ELSE m.dashboard,
        log |-> t.log \cup (IF raised = "none"
                            THEN {LogRecord("INFO", "Saved dashboard plot", "dashboard.png")}
                            ELSE {})]

\* generate_dashboard_plots on the manager m: the trends are computed first when
\* daily_totals or weekly_avg_by_building is None.
DashboardPlots(m) ==
    Figure(m, IF m.daily_totals.kind = "None" \/ m.weekly_avg_by_building.kind = "None"
              THEN TimeTrends(m)
              ELSE [daily_totals |-> m.daily_totals,
                    weekly_avg_by_building |-> m.weekly_avg_by_building,
                    peak_hours_by_building |-> m.peak_hours_by_building,
                    df |-> m.df, exc |-> "none", log |-> {}])

NoSummaryCsv == [written |-> FALSE, header |-> <<>>, rows |-> <<>>]

\* The lines printed when there is no data.
FallbackSummary ==
    <<Line("Executive Summary", "", 0),
      Line("- No data available for summary.", "", 0),
      Line("- Ensure CSVs contain Timestamp, Building, kWh.", "", 0),
      Line("- Re-run after adding valid data.", "", 0),
      Line("- Dashboard will show placeholders if data is missing.", "", 0)>>

\* The export of export_results on the manager m, with s the summary it exports:
\* summary_stats after the call, the CSV file written, the lines printed, the log
\* records and the exception raised.
Export(m, s) ==
    LET after == [m EXCEPT !.summary_stats = s.summary_stats]
    IN IF s.exc # "none"
       THEN [summary_stats |-> s.summary_stats, summary_csv |-> m.summary_csv,
             printed |-> m.printed, exc |-> s.exc, log |-> s.log]
       ELSE
       [summary_stats |-> s.summary_stats,
        exc |-> "none",
        summary_csv |-> IF s.summary_stats.kind # "None"
                        THEN [written |-> TRUE, header |-> s.summary_stats.columns,
                              rows |-> s.summary_stats.rows]
                        ELSE m.summary_csv,
        printed |-> IF HasSummary(after)
                    THEN <<Line("Executive Summary", "", 0)>> \o
                         SummaryLines(s.summary_stats.rows,
                                      "- Peak load time: Peak hour varies by building; see dashboard scatter.",
                                      "- Main trend: Daily totals fluctuate; weekly averages highlight building usage.")
                    ELSE FallbackSummary,
        log |-> s.log \cup {LogRecord("INFO", "Exported building summary", "building_summary.csv")}]

\* export_results on the manager m: the summary is computed first when
\* summary_stats is None.
ExportResults(m) ==
    Export(m, IF m.summary_stats.kind = "None" THEN SummaryStatistics(m)
              ELSE [summary_stats |-> m.summary_stats, exc |-> "none", log |-> {}])

-----------------------------------------------------------------------------
(* The state machine *)

\* The fields of the BuildingManager.
Manager ==
    [df |-> df, summary_stats |-> summary_stats, daily_totals |-> daily_totals,
     weekly_avg_by_building |-> weekly_avg_by_building,
     peak_hours_by_building |-> peak_hours_by_building, dashboard |-> dashboard,
     summary_csv |-> summary_csv, printed |-> printed]

NoRun == [ran |-> FALSE, summary_stats |-> None, daily_totals |-> None,
          weekly_avg_by_building |-> None, peak_hours_by_building |-> None]

\* The state of a process that has not called ingest_data yet.
Fresh ==
    /\ pc = "start"
    /\ combined = None
    /\ log = {}
    /\ read_calls = <<>>
    /\ exc = "none"
    /\ df = None
    /\ summary_stats = None
    /\ daily_totals = None
    /\ weekly_avg_by_building = None
    /\ peak_hours_by_building = None
    /\ printed = <<>>

NoDirectory == Directory([read |-> "absent"], <<>>, [read |-> "absent"], <<>>)

\* tracker.py is not running: its names are not bound, 0 and <<>> stand for that.
NoTracker ==
    /\ total_meals = 0
    /\ limit = 0
    /\ meal_names = <<>>
    /\ meal_calories = <<>>
    /\ total_cal = 0
    /\ avg_cal = 0

\* No script is running.
NoScript ==
    /\ entry = "none"
    /\ at = "none"
    /\ stdin = <<>>
    /\ stdout = <<>>
    /\ disk = <<>>
    /\ uncaught = "none"
    /\ total_meals = 0
    /\ limit = 0
    /\ meal_names = <<>>
    /\ meal_calories = <<>>
    /\ total_cal = 0
    /\ avg_cal = 0

\* A directory of one well-formed file with up to MaxPipelineReadings readings.
Init ==
    /\ dir_exists = TRUE
    /\ files \in SingleFileDirectories(MaxPipelineReadings)
    /\ Fresh
    /\ dashboard = NoDashboard
    /\ summary_csv = NoSummaryCsv
    /\ prev = NoRun
    /\ NoScript

\* A directory of well-formed files with up to MaxReadings readings.
InitAgg ==
    /\ dir_exists = TRUE
    /\ files \in CleanDirectories(MaxReadings)
    /\ Fresh
    /\ dashboard = NoDashboard
    /\ summary_csv = NoSummaryCsv
    /\ prev = NoRun
    /\ NoScript

\* No directory, or a directory of missing, unreadable and malformed files.
InitIngest ==
    /\ dir_exists \in BOOLEAN
    /\ files \in IF dir_exists THEN RawDirectories ELSE {NoDirectory}
    /\ Fresh
    /\ dashboard = NoDashboard
    /\ summary_csv = NoSummaryCsv
    /\ prev = NoRun
    /\ NoScript

\* df = ingest_data(data_dir)
ingest_data ==
    /\ pc = "start"
    /\ LET r == IngestData(dir_exists, files)
       IN /\ combined' = r.df
          /\ log' = log \cup r.log
          /\ read_calls' = r.reads
          /\ exc' = r.exc
    /\ pc' = "ingested"
    /\ UNCHANGED <<dir_exists, files, df, summary_stats, daily_totals,
                   weekly_avg_by_building, peak_hours_by_building, dashboard,
                   summary_csv, printed, prev>>
    /\ UNCHANGED <<script_vars, tracker_vars>>

\* manager = BuildingManager(df): self.df is a copy, a table of its own with the
\* columns and rows of the caller's.
BuildingManager ==
    /\ pc = "ingested"
    /\ exc = "none"
    /\ df' = combined
    /\ summary_stats' = None
    /\ daily_totals' = None
    /\ weekly_avg_by_building' = None
    /\ peak_hours_by_building' = None
    /\ pc' = "managed"
    /\ UNCHANGED <<dir_exists, files, combined, log, read_calls, exc, dashboard,
                   summary_csv, printed, prev>>
    /\ UNCHANGED <<script_vars, tracker_vars>>

calculate_summary_statistics ==
    /\ pc = "managed"
    /\ LET r == SummaryStatistics(Manager)
       IN /\ summary_stats' = r.summary_stats
          /\ exc' = r.exc
          /\ log' = log \cup r.log
    /\ UNCHANGED <<dir_exists, files, pc, combined, read_calls, df, daily_totals,
                   weekly_avg_by_building, peak_hours_by_building, dashboard,
                   summary_csv, printed, prev>>
    /\ UNCHANGED <<script_vars, tracker_vars>>

calculate_time_trends ==
    /\ pc = "managed"
    /\ LET r == TimeTrends(Manager)
       IN /\ daily_totals' = r.daily_totals
          /\ weekly_avg_by_building' = r.weekly_avg_by_building
          /\ peak_hours_by_building' = r.peak_hours_by_building
          /\ df' = r.df
          /\ exc' = r.exc
          /\ log' = log \cup r.log
    /\ UNCHANGED <<dir_exists, files, pc, combined, read_calls, summary_stats,
                   dashboard, summary_csv, printed, prev>>
    /\ UNCHANGED <<script_vars, tracker_vars>>

generate_dashboard_plots ==
    /\ pc = "managed"
    /\ LET r == DashboardPlots(Manager)
       IN /\ daily_totals' = r.daily_totals
          /\ weekly_avg_by_building' = r.weekly_avg_by_building
          /\ peak_hours_by_building' = r.peak_hours_by_building
          /\ dashboard' = r.dashboard
          /\ df' = r.df
          /\ exc' = r.exc
          /\ log' = log \cup r.log
    /\ UNCHANGED <<dir_exists, files, pc, combined, read_calls, summary_stats,
                   summary_csv, printed, prev>>
    /\ UNCHANGED <<script_vars, tracker_vars>>

export_results ==
    /\ pc = "managed"
    /\ LET r == ExportResults(Manager)
       IN /\ summary_stats' = r.summary_stats
          /\ summary_csv' = r.summary_csv
          /\ printed' = r.printed
          /\ exc' = r.exc
          /\ log' = log \cup r.log
    /\ UNCHANGED <<dir_exists, files, pc, combined, read_calls, df, daily_totals,
                   weekly_avg_by_building, peak_hours_by_building, dashboard, prev>>
    /\ UNCHANGED <<script_vars, tracker_vars>>

\* This run of the pipeline is over: the dashboard was saved and the summary
\* printed, or a call raised.
RunOver ==
    /\ pc = "managed"
    /\ \/ exc # "none"
       \/ /\ printed # <<>>
          /\ LogRecord("INFO", "Saved dashboard plot", "dashboard.png") \in log

\* The script is run again on the same directory: a new process, with the
\* output files of the run before still on disk.
main ==
    /\ RunOver
    /\ prev' = [ran |-> TRUE, summary_stats |-> summary_stats, daily_totals |-> daily_totals,
                weekly_avg_by_building |-> weekly_avg_by_building,
                peak_hours_by_building |-> peak_hours_by_building]
    /\ pc' = "start"
    /\ combined' = None
    /\ log' = {}
    /\ read_calls' = <<>>
    /\ exc' = "none"
    /\ df' = None
    /\ summary_stats' = None
    /\ daily_totals' = None
    /\ weekly_avg_by_building' = None
    /\ peak_hours_by_building' = None
    /\ printed' = <<>>
    /\ UNCHANGED <<dir_exists, files, dashboard, summary_csv>>
    /\ UNCHANGED <<script_vars, tracker_vars>>

Next ==
    \/ ingest_data
    \/ BuildingManager
    \/ calculate_summary_statistics
    \/ calculate_time_trends
    \/ generate_dashboard_plots
    \/ export_results
    \/ main

Spec == Init /\ [][Next]_vars

NextAgg ==
    \/ ingest_data
    \/ BuildingManager
    \/ calculate_summary_statistics
    \/ calculate_time_trends

SpecAgg == InitAgg /\ [][NextAgg]_vars

NextIngest ==
    \/ ingest_data
    \/ BuildingManager

SpecIngest == InitIngest /\ [][NextIngest]_vars

-----------------------------------------------------------------------------
(* ingest_data: what the combined table holds *)

\* The row of the combined table read from line i of file n, if there is one.
Ingested(n, i) == \E j \in DOMAIN combined.rows : combined.rows[j].origin = <<n, i>>

\* The combined table holds a row read from file n.
Contributes(n) == \E j \in DOMAIN combined.rows : combined.rows[j].origin[1] = n

\* File n was read and has the three required columns.
Complete(n) == files[n].read = "ok" /\ RequiredColumns \subseteq files[n].columns

\* Line i of file n has a Timestamp that parses and a numeric kWh.
ValidLine(n, i) ==
    /\ to_datetime(files[n].rows[i].Timestamp) # NaT
    /\ to_numeric(files[n].rows[i].kWh) # NaN

\* C1: once ingest_data has returned, no row of a file that lacks one of the
\* columns Timestamp, Building, kWh is in the combined table, and every valid
\* row of every file that has all three is.
C1_MissingColumnSkipsFile ==
    pc # "start" =>
        \A n \in DOMAIN files :
            /\ (files[n].read = "ok" /\ ~Complete(n)) => ~Contributes(n)
            /\ Complete(n) =>
                   \A i \in DOMAIN files[n].rows : ValidLine(n, i) => Ingested(n, i)

\* a.csv has rows and lacks a column, and a valid row of b.csv is in the table.
C1_Witness ==
    /\ pc = "ingested"
    /\ DOMAIN files = {"a.csv", "b.csv"}
    /\ files["a.csv"].read = "ok"
    /\ ~Complete("a.csv")
    /\ files["a.csv"].rows # <<>>
    /\ Complete("b.csv")
    /\ \E i \in DOMAIN files["b.csv"].rows : ValidLine("b.csv", i) /\ Ingested("b.csv", i)

\* C2: every row of the table ingest_data returns has a parsed Timestamp and a
\* numeric kWh, and a line of a file with all required columns is left out of
\* the table exactly when its Timestamp does not parse or its kWh is not
\* numeric; a line that is kept is there once, with its cells converted.
C2_OnlyInvalidRowsDropped ==
    pc # "start" =>
        /\ \A j \in DOMAIN combined.rows :
              /\ combined.rows[j].Timestamp # NaT
              /\ combined.rows[j].kWh # NaN
              /\ combined.rows[j].kWh \in Nat
        /\ \A n \in DOMAIN files : Complete(n) =>
              \A i \in DOMAIN files[n].rows :
                  /\ Ingested(n, i) <=> ValidLine(n, i)
                  /\ Cardinality({j \in DOMAIN combined.rows :
                                     combined.rows[j].origin = <<n, i>>}) <= 1
                  /\ \A j \in DOMAIN combined.rows :
                        combined.rows[j].origin = <<n, i>> =>
                            /\ combined.rows[j].Timestamp = to_datetime(files[n].rows[i].Timestamp)
                            /\ combined.rows[j].kWh = to_numeric(files[n].rows[i].kWh)
                            /\ combined.rows[j].Building = files[n].rows[i].Building

\* A file with all columns has a line that was dropped for its Timestamp, one
\* that was dropped for its kWh, or both in one file, next to a line that was kept.
C2_Witness ==
    /\ pc = "ingested"
    /\ \E n \in DOMAIN files :
          /\ Complete(n)
          /\ \E i, k \in DOMAIN files[n].rows :
                /\ ~ValidLine(n, i)
                /\ ~Ingested(n, i)
                /\ ValidLine(n, k)
                /\ Ingested(n, k)
    /\ \E n \in DOMAIN files :
          /\ Complete(n)
          /\ \E i \in DOMAIN files[n].rows :
                to_datetime(files[n].rows[i].Timestamp) # NaT /\ ~Ingested(n, i)

\* C3: when the directory does not exist, or exists and holds no .csv file,
\* ingest_data returns an empty table and raises nothing; it logs an error in
\* the first case and a warning in the second.
C3_NothingToIngest ==
    (pc # "start" /\ (~dir_exists \/ DOMAIN files = {})) =>
        /\ exc = "none"
        /\ combined.kind = "DataFrame"
        /\ combined.rows = <<>>
        /\ ~dir_exists =>
               \E r \in log : r.level = "ERROR" /\ r.message = "Data directory does not exist"
        /\ dir_exists =>
               \E r \in log : r.level = "WARNING" /\ r.message = "No CSV files found"

\* ingest_data has returned for a directory that does not exist.
C3_Witness ==
    /\ pc = "ingested"
    /\ ~dir_exists
    /\ combined.rows = <<>>
    /\ \E r \in log : r.level = "ERROR"

\* The place of a file name in the lexicographic order.
NameRank(n) == CHOOSE i \in DOMAIN FileOrder : FileOrder[i] = n

\* C4: a file whose read fails contributes no row and is logged; ingest_data
\* raises nothing, and it has read every file of the directory exactly once, in
\* lexicographic order, so the files after the failing one are processed (their
\* valid rows are in the table) and the failing one is not read again.
C4_ReadFailureSkipsOneFile ==
    pc # "start" =>
        /\ exc = "none"
        /\ {read_calls[i] : i \in DOMAIN read_calls} = (IF dir_exists THEN DOMAIN files ELSE {})
        /\ \A i, j \in DOMAIN read_calls :
              i < j => NameRank(read_calls[i]) < NameRank(read_calls[j])
        /\ \A n \in DOMAIN files : files[n].read # "ok" =>
              /\ ~Contributes(n)
              /\ \E r \in log : r.level = "ERROR" /\ r.subject = n
              /\ \A m \in DOMAIN files : Complete(m) =>
                    \A i \in DOMAIN files[m].rows : ValidLine(m, i) => Ingested(m, i)

\* The read of a.csv failed, and b.csv was read after it and has a row in the table.
C4_Witness ==
    /\ pc = "ingested"
    /\ DOMAIN files = {"a.csv", "b.csv"}
    /\ files["a.csv"].read # "ok"
    /\ read_calls = <<"a.csv", "b.csv">>
    /\ Contributes("b.csv")

-----------------------------------------------------------------------------
(* BuildingManager: what the aggregates hold *)

\* The sum of kWh over the rows of the manager's table whose index is in S.
RECURSIVE KwhOver(_)
KwhOver(S) ==
    IF S = {} THEN 0
    ELSE LET i == CHOOSE i \in S : TRUE IN df.rows[i].kWh + KwhOver(S \ {i})

\* The rows of the manager's table that belong to building b.
RowsOf(b) == {i \in DOMAIN df.rows : df.rows[i].Building = b}

\* The rows of the manager's table timestamped on day d.
RowsOn(d) == {i \in DOMAIN df.rows : df.rows[i].Timestamp.day = d}

BuildingsPresent == {df.rows[i].Building : i \in DOMAIN df.rows}

\* C5: once calculate_summary_statistics has run, summary_stats is empty for an
\* empty table and otherwise has exactly one entry for every building of the
\* table, holding the mean, min, max and sum of that building's kWh values, with
\* the entries in descending order of the sum.
C5_SummaryPerBuilding ==
    (pc = "managed" /\ summary_stats.kind # "None") =>
        LET rows == summary_stats.rows
        IN /\ IsEmpty(df) => rows = <<>>
           /\ {rows[i].Building : i \in DOMAIN rows} = BuildingsPresent
           /\ Len(rows) = Cardinality(BuildingsPresent)
           /\ \A i \in DOMAIN rows :
                 LET mine == RowsOf(rows[i].Building)
                 IN /\ rows[i].total_kWh = KwhOver(mine)
                    /\ rows[i].mean_kWh.den > 0
                    /\ rows[i].mean_kWh.num * Cardinality(mine)
                           = rows[i].mean_kWh.den * KwhOver(mine)
                    /\ \E k \in mine : df.rows[k].kWh = rows[i].min_kWh
                    /\ \A k \in mine : df.rows[k].kWh >= rows[i].min_kWh
                    /\ \E k \in mine : df.rows[k].kWh = rows[i].max_kWh
                    /\ \A k \in mine : df.rows[k].kWh <= rows[i].max_kWh
           /\ \A i, j \in DOMAIN rows : i < j => rows[i].total_kWh >= rows[j].total_kWh

\* Building A with the values 1 and 2 and building B with the value 1: A has
\* mean 3/2, min 1, max 2, sum 3, B has 1 throughout, and A comes first.
C5_Witness ==
    /\ pc = "managed"
    /\ summary_stats.kind = "DataFrame"
    /\ summary_stats.rows =
          <<[Building |-> "A", mean_kWh |-> [num |-> 3, den |-> 2], min_kWh |-> 1,
             max_kWh |-> 2, total_kWh |-> 3],
            [Building |-> "B", mean_kWh |-> [num |-> 1, den |-> 1], min_kWh |-> 1,
             max_kWh |-> 1, total_kWh |-> 1]>>

\* C6: for a table that is not empty, daily_totals has one entry for every day
\* from the first to the last day of the table, and the entry of a day is the
\* sum of kWh over all rows of that day, of whatever building and wherever they
\* stand in the table.
C6_DailyTotals ==
    (pc = "managed" /\ ~IsEmpty(df) /\ daily_totals.kind # "None") =>
        /\ daily_totals.kind = "Series"
        /\ \A i \in DOMAIN df.rows :
              \E e \in DOMAIN daily_totals.rows :
                  daily_totals.rows[e].day = df.rows[i].Timestamp.day
        /\ \A e, f \in DOMAIN daily_totals.rows :
              e < f => daily_totals.rows[e].day < daily_totals.rows[f].day
        /\ \A e \in DOMAIN daily_totals.rows :
              daily_totals.rows[e].kWh = KwhOver(RowsOn(daily_totals.rows[e].day))

\* Three readings of two buildings on one day that add up to 5.
C6_Witness ==
    /\ pc = "managed"
    /\ daily_totals.kind = "Series"
    /\ Len(df.rows) = 3
    /\ \E d \in Days(df.rows) :
          /\ Cardinality(RowsOn(d)) = 3
          /\ \E e \in DOMAIN daily_totals.rows :
                daily_totals.rows[e].day = d /\ daily_totals.rows[e].kWh = 5
    /\ BuildingsPresent = {"A", "B"}

\* The first row of building b with the largest kWh of b, in table order.
FirstMaxRow(b) ==
    CHOOSE i \in RowsOf(b) :
        /\ \A k \in RowsOf(b) : df.rows[k].kWh <= df.rows[i].kWh
        /\ \A k \in RowsOf(b) : k < i => df.rows[k].kWh < df.rows[i].kWh

\* C7: for a table that is not empty, calculate_time_trends raises nothing and
\* peak_hours_by_building has the columns PeakHour and Peak_kWh and exactly one
\* entry for every building: the hour and the kWh of the first row of the
\* building with its largest kWh.
C7_OnePeakPerBuilding ==
    (pc = "managed" /\ ~IsEmpty(df) /\ daily_totals.kind # "None") =>
        LET peak == peak_hours_by_building
        IN /\ exc = "none"
           /\ peak.kind = "DataFrame"
           /\ peak.columns = <<"PeakHour", "Peak_kWh">>
           /\ Len(peak.rows) = Cardinality(BuildingsPresent)
           /\ \A b \in BuildingsPresent :
                 \E i \in DOMAIN peak.rows :
                     /\ peak.rows[i].index = <<b>>
                     /\ peak.rows[i].cells =
                            <<df.rows[FirstMaxRow(b)].Timestamp.hour,
                              df.rows[FirstMaxRow(b)].kWh>>

-----------------------------------------------------------------------------
(* BuildingManager: the cached fields, and the empty table *)

\* A field that was computed before holds the same value after the step.
Keeps(before, after) == before.kind # "None" => after = before

\* A field computed in this run and in the run before holds the same value in both.
Agrees(before, now) == (before.kind # "None" /\ now.kind # "None") => now = before

\* C8: a call on a BuildingManager, whichever it is and whatever was called
\* before it, leaves every aggregate that was already computed with the value it
\* had, and an aggregate computed in a second run of the pipeline on the same
\* files has the value it had in the first run.
C8_Idempotent ==
    [][ /\ (pc = "managed" /\ pc' = "managed") =>
              /\ Keeps(summary_stats, summary_stats')
              /\ Keeps(daily_totals, daily_totals')
              /\ Keeps(weekly_avg_by_building, weekly_avg_by_building')
              /\ Keeps(peak_hours_by_building, peak_hours_by_building')
        /\ prev'.ran =>
              /\ Agrees(prev'.summary_stats, summary_stats')
              /\ Agrees(prev'.daily_totals, daily_totals')
              /\ Agrees(prev'.weekly_avg_by_building, weekly_avg_by_building')
              /\ Agrees(prev'.peak_hours_by_building, peak_hours_by_building')
      ]_vars

\* The second run of the pipeline has computed the summary and the trends of a
\* table of two buildings, as the first run did, and has drawn and exported them.
C8_Witness ==
    /\ prev.ran
    /\ pc = "managed"
    /\ Len(summary_stats.rows) = 2
    /\ prev.summary_stats = summary_stats
    /\ daily_totals.kind = "Series"
    /\ prev.daily_totals = daily_totals
    /\ prev.peak_hours_by_building = peak_hours_by_building
    /\ peak_hours_by_building.kind = "DataFrame"
    /\ printed # <<>>
    /\ LogRecord("INFO", "Saved dashboard plot", "dashboard.png") \in log

\* C9: with an empty table no call on the manager raises, and once
\* export_results has printed, building_summary.csv is written with no data row
\* and the lines printed are the heading and the four lines of the fallback
\* message.
C9_EmptyExport ==
    (pc = "managed" /\ IsEmpty(df)) =>
        /\ exc = "none"
        /\ printed # <<>> =>
              /\ summary_csv.written
              /\ summary_csv.rows = <<>>
              /\ Len(printed) = 5
              /\ printed[1].text = "Executive Summary"
              /\ printed[2].text = "- No data available for summary."
              /\ printed[3].text = "- Ensure CSVs contain Timestamp, Building, kWh."
              /\ printed[4].text = "- Re-run after adding valid data."
              /\ printed[5].text = "- Dashboard will show placeholders if data is missing."

\* export_results has printed the fallback message for an empty table.
C9_Witness ==
    /\ pc = "managed"
    /\ IsEmpty(df)
    /\ printed = FallbackSummary
    /\ summary_csv.written
    /\ summary_csv.rows = <<>>

\* C10: once calculate_time_trends has run on an empty table, daily_totals,
\* weekly_avg_by_building and peak_hours_by_building all hold an empty result.
C10_AllTrendsEmpty ==
    (pc = "managed" /\ IsEmpty(df) /\ daily_totals.kind # "None") =>
        /\ exc = "none"
        /\ daily_totals = EmptyDataFrame
        /\ weekly_avg_by_building = EmptyDataFrame
        /\ peak_hours_by_building.kind # "None"
        /\ IsEmpty(peak_hours_by_building)

\* generate_dashboard_plots has saved the figure in this run of the pipeline.
DashboardDrawn ==
    /\ pc = "managed"
    /\ dashboard.saved
    /\ LogRecord("INFO", "Saved dashboard plot", "dashboard.png") \in log

\* C11: in the figure generate_dashboard_plots saves, whatever was called on the
\* manager before it, each of the four panels shows its placeholder text when
\* the table is empty and its data when the table is not empty: with a table
\* that is not empty no panel shows a placeholder.
C11_PanelsIndependent ==
    DashboardDrawn =>
        /\ Len(dashboard.panels) = 4
        /\ \A i \in 1..4 :
              /\ (dashboard.panels[i].text # "") <=> IsEmpty(df)
              /\ (dashboard.panels[i].data # <<>>) <=> ~IsEmpty(df)

\* C12: the manager's table has the columns and rows of the table it was built
\* from, and no call of calculate_summary_statistics, calculate_time_trends,
\* generate_dashboard_plots or export_results, in any sequence, changes the
\* caller's table or the manager's self.df.
C12_TableUnchanged ==
    [][ /\ pc' = "managed" => df' = combined'
        /\ (pc = "managed" /\ pc' = "managed") => (df' = df /\ combined' = combined)
      ]_vars

\* All four operations have run on a table of two readings, the trends with
\* their peak computation among them, and the table is as ingest_data returned it.
C12_Witness ==
    /\ DashboardDrawn
    /\ printed # <<>>
    /\ summary_stats.kind = "DataFrame"
    /\ peak_hours_by_building.kind = "DataFrame"
    /\ Len(df.rows) = 2
    /\ df.columns = <<"Building", "kWh">>
    /\ "Hour" \notin DOMAIN df.rows[1]
    /\ df = combined

-----------------------------------------------------------------------------
(* gradebook.py: values, the dictionaries and the CSV files *)

\* A Python float that is a number; the marks of the model are whole numbers.
Float(v) == [nan |-> FALSE, v |-> v]

float_nan == [nan |-> TRUE, v |-> 0]

\* a < b on floats: every comparison with nan is False.
Less(a, b) == ~a.nan /\ ~b.nan /\ a.v < b.v

\* a >= b on floats.
AtLeast(a, b) == ~a.nan /\ ~b.nan /\ a.v >= b.v

\* float(s): the float the text denotes, or ValueError.
float(s) ==
    CASE s \in {"1", "1.0"} -> [raises |-> "none", value |-> Float(1)]
      [] s \in {"2", "2.0"} -> [raises |-> "none", value |-> Float(2)]
      [] s \in {"3", "3.0"} -> [raises |-> "none", value |-> Float(3)]
      [] s \in {"4", "4.0"} -> [raises |-> "none", value |-> Float(4)]
      [] s \in {"50", "50.0"} -> [raises |-> "none", value |-> Float(50)]
      [] s \in {"95", "95.0"} -> [raises |-> "none", value |-> Float(95)]
      [] s \in {"101", "101.0"} -> [raises |-> "none", value |-> Float(101)]
      [] s \in {"-1", "-1.0"} -> [raises |-> "none", value |-> Float(-1)]
      [] s = "nan" -> [raises |-> "none", value |-> float_nan]
      [] OTHER -> [raises |-> "ValueError", value |-> float_nan]

\* str(x) of a float, as csv.writer writes it.
str(x) == IF x.nan THEN "nan" ELSE ToString(x.v) \o ".0"

\* s.strip()
strip(s) ==
    CASE s = "Ann " -> "Ann"
      [] s = " " -> ""
      [] s = " 1" -> "1"
      [] OTHER -> s

\* s.lower()
lower(s) ==
    CASE s = "Done" -> "done"
      [] s = "Ann" -> "ann"
      [] s = "Yes" -> "yes"
      [] OTHER -> s

\* d[k] = v on a dict, kept as the sequence of its items in insertion order.
SetItem(d, k, v) ==
    IF \E i \in DOMAIN d : d[i].key = k
    THEN [i \in DOMAIN d |-> IF d[i].key = k THEN [key |-> k, value |-> v] ELSE d[i]]
    ELSE Append(d, [key |-> k, value |-> v])

\* print(text) with the values formatted into it.
Printed(text) == Line(text, "", 0)

\* A file of the working directory holding the rows csv.reader gives, and a
\* directory, which exists and cannot be opened.
File(rows) == [kind |-> "file", rows |-> rows]

Folder == [kind |-> "dir", rows |-> <<>>]

\* os.path.exists(filename)
exists(d, filename) == filename \in DOMAIN d

\* The working directory with the file written.
Written(d, filename, file) ==
    [n \in DOMAIN d \cup {filename} |-> IF n = filename THEN file ELSE d[n]]

\* get_manual_input reading the typed lines: the marks it returns, the lines
\* left and the lines printed; returned is FALSE when it waits for a line that
\* was not typed.
RECURSIVE ManualInput(_, _, _)
ManualInput(marks, lines, out) ==
    IF lines = <<>>
    THEN [returned |-> FALSE, marks |-> marks, rest |-> <<>>, out |-> out]
    ELSE LET name == strip(Head(lines))
         IN IF lower(name) = "done"
            THEN [returned |-> TRUE, marks |-> marks, rest |-> Tail(lines), out |-> out]
            ELSE IF name = ""
            THEN ManualInput(marks, Tail(lines), Append(out, Printed("Name cannot be empty.")))
            ELSE IF Len(lines) < 2
            THEN [returned |-> FALSE, marks |-> marks, rest |-> <<>>, out |-> out]
            ELSE LET score == float(strip(lines[2]))
                     rest == SubSeq(lines, 3, Len(lines))
                 IN IF score.raises # "none"
                    THEN ManualInput(marks, rest,
                                     Append(out, Printed("Invalid input. Please enter a number.")))
                    ELSE IF Less(score.value, Float(0)) \/ Less(Float(100), score.value)
                    THEN ManualInput(marks, rest,
                                     Append(out, Printed("Marks must be between 0 and 100.")))
                    ELSE ManualInput(SetItem(marks, name, score.value), rest, out)

\* get_manual_input
get_manual_input(lines) ==
    ManualInput(<<>>, lines,
                <<Printed("--- Manual Data Entry ---"), Printed("Type 'done' as name to finish.")>>)

\* The loop of load_csv_data over the rows after the header.
RECURSIVE LoadRows(_, _)
LoadRows(marks, rows) ==
    IF rows = <<>> THEN marks
    ELSE LET row == Head(rows)
         IN IF Len(row) < 2 THEN LoadRows(marks, Tail(rows))
            ELSE IF strip(row[1]) = "" THEN LoadRows(marks, Tail(rows))
            ELSE IF float(strip(row[2])).raises # "none" THEN LoadRows(marks, Tail(rows))
            ELSE LoadRows(SetItem(marks, strip(row[1]), float(strip(row[2])).value), Tail(rows))

\* load_csv_data(filename) in the working directory d: the marks and the lines printed.
load_csv_data(d, filename) ==
    IF ~exists(d, filename)
    THEN [marks |-> <<>>, out |-> <<Line("Error: File not found.", filename, 0)>>]
    ELSE IF d[filename].kind # "file"
    THEN [marks |-> <<>>, out |-> <<Line("An error occurred while reading", filename, 0)>>]
    ELSE LET rows == d[filename].rows
             start_index == IF rows # <<>> /\ Len(rows[1]) >= 2 /\ float(rows[1][2]).raises # "none"
                            THEN 1 ELSE 0
             marks == LoadRows(<<>>, SubSeq(rows, start_index + 1, Len(rows)))
         IN IF rows = <<>> THEN [marks |-> <<>>, out |-> <<>>]
            ELSE [marks |-> marks, out |-> <<Line("Loaded students from", filename, Len(marks))>>]

\* The range check of the marks: a score below 0 or above 100 is turned away.
OutOfRange(score) == Less(score, Float(0)) \/ Less(Float(100), score)

\* append_student_record(filename) in the working directory d reading the typed
\* lines: the directory after it, the lines left and the lines printed; returned
\* is FALSE when it waits for a line that was not typed.
AppendStudentRecord(d, filename, lines) ==
    IF lines = <<>>
    THEN [returned |-> FALSE, disk |-> d, rest |-> <<>>, out |-> <<>>]
    ELSE IF strip(lines[1]) = ""
    THEN [returned |-> TRUE, disk |-> d, rest |-> Tail(lines),
          out |-> <<Printed("Name cannot be empty.")>>]
    ELSE IF Len(lines) < 2
    THEN [returned |-> FALSE, disk |-> d, rest |-> <<>>, out |-> <<>>]
    ELSE LET name == strip(lines[1])
             score == float(strip(lines[2]))
             rest == SubSeq(lines, 3, Len(lines))
             file_exists == exists(d, filename)
             header == IF file_exists THEN <<>> ELSE <<(<<"Name", "Marks">>)>>
             before == IF file_exists THEN d[filename].rows ELSE <<>>
         IN IF score.raises # "none"
            THEN [returned |-> TRUE, disk |-> d, rest |-> rest,
                  out |-> <<Printed("Invalid marks.")>>]
            ELSE IF OutOfRange(score.value)
            THEN [returned |-> TRUE, disk |-> d, rest |-> rest,
                  out |-> <<Printed("Marks must be between 0 and 100.")>>]
            ELSE IF file_exists /\ d[filename].kind # "file"
            THEN [returned |-> TRUE, disk |-> d, rest |-> rest,
                  out |-> <<Line("Could not write to", filename, 0)>>]
            ELSE [returned |-> TRUE,
                  disk |-> Written(d, filename,
                                   File(before \o header \o <<(<<name, str(score.value)>>)>>)),
                  rest |-> rest,
                  out |-> <<Line("Added to", name, 0)>>]

-----------------------------------------------------------------------------
(* gradebook.py: the class statistics *)

\* The loop of calculate_average: the total, which is nan once a nan was added.
RECURSIVE Total(_)
Total(items) ==
    IF items = <<>> THEN Float(0)
    ELSE LET before == Total(SubSeq(items, 1, Len(items) - 1))
             v == items[Len(items)].value
         IN IF before.nan \/ v.nan THEN float_nan ELSE Float(before.v + v.v)

\* calculate_average(marks_dict): nan, or the quotient total / count.
calculate_average(items) ==
    IF items = <<>> THEN [nan |-> FALSE, q |-> Quotient(0, 1)]
    ELSE IF Total(items).nan THEN [nan |-> TRUE, q |-> Quotient(0, 1)]
    ELSE [nan |-> FALSE, q |-> Quotient(Total(items).v, Len(items))]

\* The loop of find_max_score: the highest score so far and who has it.
RECURSIVE MaxLoop(_)
MaxLoop(items) ==
    IF Len(items) = 1
    THEN [score |-> items[1].value, students |-> <<items[1].key>>]
    ELSE LET before == MaxLoop(SubSeq(items, 1, Len(items) - 1))
             item == items[Len(items)]
         IN IF Less(before.score, item.value)
            THEN [score |-> item.value, students |-> <<item.key>>]
            ELSE IF item.value = before.score /\ ~item.value.nan
            THEN [score |-> before.score, students |-> Append(before.students, item.key)]
            ELSE before

\* find_max_score(student_scores): the line it prints.
find_max_score(items) ==
    IF items = <<>> THEN Printed("No student data to find max.")
    ELSE Line("HIGHEST SCORE", MaxLoop(items).students, MaxLoop(items).score)

\* The loop of find_min_score: the lowest score so far and who has it.
RECURSIVE MinLoop(_)
MinLoop(items) ==
    IF Len(items) = 1
    THEN [score |-> items[1].value, students |-> <<items[1].key>>]
    ELSE LET before == MinLoop(SubSeq(items, 1, Len(items) - 1))
             item == items[Len(items)]
         IN IF Less(item.value, before.score)
            THEN [score |-> item.value, students |-> <<item.key>>]
            ELSE IF item.value = before.score /\ ~item.value.nan
            THEN [score |-> before.score, students |-> Append(before.students, item.key)]
            ELSE before

\* find_min_score(student_scores): the line it prints.
find_min_score(items) ==
    IF items = <<>> THEN Printed("No student data to find min.")
    ELSE Line("LOWEST SCORE", MinLoop(items).students, MinLoop(items).score)

\* The grade of one score.
Grade(score) ==
    IF AtLeast(score, Float(90)) THEN "A"
    ELSE IF AtLeast(score, Float(80)) THEN "B"
    ELSE IF AtLeast(score, Float(70)) THEN "C"
    ELSE IF AtLeast(score, Float(60)) THEN "D"
    ELSE "F"

\* assign_grades(student_scores): the grades and how many students have each.
assign_grades(items) ==
    [grades |-> [i \in DOMAIN items |-> [key |-> items[i].key, value |-> Grade(items[i].value)]],
     distribution |-> [g \in {"A", "B", "C", "D", "F"} |->
                          Cardinality({i \in DOMAIN items : Grade(items[i].value) = g})]]

PASS_MARK == Float(40)

\* print_summary(student_scores, grades): the lines it prints.
print_summary(items, grades) ==
    IF items = <<>> THEN <<Printed("No student data to show.")>>
    ELSE <<Printed("--- Class Statistics ---"),
           Line("Average Score", "", calculate_average(items)),
           find_max_score(items),
           find_min_score(items),
           Line("Grade Counts", "", assign_grades(items).distribution),
           Line("Passed", "",
                Cardinality({i \in DOMAIN items : AtLeast(items[i].value, PASS_MARK)})),
           Line("Failed", "",
                Cardinality({i \in DOMAIN items : Less(items[i].value, PASS_MARK)})),
           Printed("=================================================="),
           Printed("Name | Marks | Grade"),
           Printed("--------------------------------------------------")>> \o
         [i \in DOMAIN items |-> Line(grades[i].value, items[i].key, items[i].value)] \o
         <<Printed("==================================================")>>

\* The end of an iteration of the loop of main, for the choices 1, 2 and 3.
Report(student_scores) ==
    IF student_scores # <<>>
    THEN print_summary(student_scores, assign_grades(student_scores).grades)
    ELSE <<Printed("No data loaded.")>>

\* The four lines of the menu.
Menu ==
    <<Printed("1. Manual Entry"), Printed("2. Load from CSV"),
      Printed("3. Add Student to CSV"), Printed("4. Exit")>>

-----------------------------------------------------------------------------
(* gradebook.py: the script and its menu *)

\* Lines typed at the menu and at the prompts behind it.
MaxTyped == 5

\* Lines typed at the prompts of append_student_record.
MaxAppendTyped == 4

\* What may be typed on a line at the menu: the choices, which also serve as
\* file names and marks, a name, the word that ends the manual entry, nothing.
TypedLines == {"1", "2", "3", "4", "Ann ", "Done", ""}

\* What may be typed on a line at the prompts of append_student_record.
AppendLines == {"Ann ", " ", "50", "101", "-1", "nan"}

\* The file append_student_record is called on.
AppendTarget == "marks.csv"

\* The working directory of the menu: the file named 1 holds a header and a record.
MenuDisk == [n \in {"1"} |-> File(<<(<<"Name", "Marks">>), (<<"Ann", "95.0">>)>>)]

\* The working directories append_student_record is called in: no file, an
\* empty file, a file with a header and a record, a directory of that name.
AppendDisks ==
    {<<>>} \cup
    {[n \in {AppendTarget} |-> f] :
        f \in {File(<<>>), File(<<(<<"Name", "Marks">>), (<<"Bob", "50.0">>)>>), Folder}}

\* The energy dashboard is not running.
NoPipeline ==
    /\ dir_exists = FALSE
    /\ files = NoDirectory
    /\ Fresh
    /\ dashboard = NoDashboard
    /\ summary_csv = NoSummaryCsv
    /\ prev = NoRun

\* The names bound when the last statement of gradebook.py is reached.
ModuleNames ==
    {"__name__", "__file__", "__builtins__", "csv", "os", "PASS_MARK", "get_manual_input",
     "load_csv_data", "append_student_record", "calculate_average", "find_max_score",
     "find_min_score", "assign_grades", "print_summary", "main"}

\* The evaluation of a name at module level: NameError when nothing binds it.
NameLookup(name) == IF name \in ModuleNames THEN "none" ELSE "NameError"

\* What main prints before it reads the first choice.
Banner == <<Printed("=== GRADEBOOK ANALYZER ===")>> \o Menu

\* gradebook.py is run, main() is called by hand, with the lines typed at it.
InitGradebook ==
    /\ NoPipeline
    /\ NoTracker
    /\ entry \in {"gradebook.py", "main()"}
    /\ at = IF entry = "gradebook.py" THEN "module" ELSE "call"
    /\ stdin \in SeqsUpTo(TypedLines, MaxTyped)
    /\ stdout = <<>>
    /\ disk = MenuDisk
    /\ uncaught = "none"

\* append_student_record is called, with the lines typed at it.
InitAppend ==
    /\ NoPipeline
    /\ NoTracker
    /\ entry = "append_student_record()"
    /\ at = "call"
    /\ stdin \in SeqsUpTo(AppendLines, MaxAppendTyped)
    /\ stdout = <<>>
    /\ disk \in AppendDisks
    /\ uncaught = "none"

\* The statements of the module: the imports, the definitions and the guard
\* 'if _name_ == "_main_": main()' of line 246.
gradebook_script ==
    /\ entry = "gradebook.py"
    /\ at = "module"
    /\ IF NameLookup("_name_") # "none"
       THEN /\ at' = "raised"
            /\ uncaught' = NameLookup("_name_")
            /\ stdout' = stdout
       ELSE /\ at' = "menu"
            /\ uncaught' = "none"
            /\ stdout' = stdout \o Banner
    /\ UNCHANGED <<stdin, disk, entry>>
    /\ UNCHANGED <<energy_vars, tracker_vars>>

\* main() up to the first input().
gradebook_main ==
    /\ entry = "main()"
    /\ at = "call"
    /\ at' = "menu"
    /\ stdout' = stdout \o Banner
    /\ UNCHANGED <<stdin, disk, entry, uncaught>>
    /\ UNCHANGED <<energy_vars, tracker_vars>>

\* The choice main reads at the menu.
choice == strip(Head(stdin))

\* Choice 1: the manual entry and the report of what was entered.
choice_1 ==
    /\ at = "menu"
    /\ stdin # <<>>
    /\ choice = "1"
    /\ LET r == get_manual_input(Tail(stdin))
       IN /\ r.returned
          /\ stdin' = r.rest
          /\ stdout' = stdout \o r.out \o Report(r.marks) \o Menu
    /\ UNCHANGED <<at, disk, entry, uncaught>>
    /\ UNCHANGED <<energy_vars, tracker_vars>>

\* Choice 2: the marks of a CSV file and their report.
choice_2 ==
    /\ at = "menu"
    /\ Len(stdin) >= 2
    /\ choice = "2"
    /\ LET filename == strip(stdin[2])
           r == load_csv_data(disk, filename)
       IN stdout' = IF filename = ""
                    THEN stdout \o <<Printed("Filename cannot be empty.")>> \o Menu
                    ELSE stdout \o r.out \o Report(r.marks) \o Menu
    /\ stdin' = SubSeq(stdin, 3, Len(stdin))
    /\ UNCHANGED <<at, disk, entry, uncaught>>
    /\ UNCHANGED <<energy_vars, tracker_vars>>

\* Choice 3: a record is added to a CSV file, and the file is loaded and reported.
choice_3 ==
    /\ at = "menu"
    /\ Len(stdin) >= 2
    /\ choice = "3"
    /\ LET filename == strip(stdin[2])
           a == AppendStudentRecord(disk, filename, SubSeq(stdin, 3, Len(stdin)))
           r == load_csv_data(a.disk, filename)
       IN IF filename = ""
          THEN /\ stdout' = stdout \o <<Printed("Filename cannot be empty.")>> \o Menu
               /\ stdin' = SubSeq(stdin, 3, Len(stdin))
               /\ disk' = disk
          ELSE /\ a.returned
               /\ stdout' = stdout \o a.out \o r.out \o Report(r.marks) \o Menu
               /\ stdin' = a.rest
               /\ disk' = a.disk
    /\ UNCHANGED <<at, entry, uncaught>>
    /\ UNCHANGED <<energy_vars, tracker_vars>>

\* Choice 4: main returns.
choice_4 ==
    /\ at = "menu"
    /\ stdin # <<>>
    /\ choice = "4"
    /\ stdin' = Tail(stdin)
    /\ stdout' = Append(stdout, Printed("Goodbye!"))
    /\ at' = "exited"
    /\ UNCHANGED <<disk, entry, uncaught>>
    /\ UNCHANGED <<energy_vars, tracker_vars>>

\* Any other choice: the menu is shown again.
invalid_choice ==
    /\ at = "menu"
    /\ stdin # <<>>
    /\ choice \notin {"1", "2", "3", "4"}
    /\ stdin' = Tail(stdin)
    /\ stdout' = stdout \o <<Printed("Invalid choice. Try again.")>> \o Menu
    /\ UNCHANGED <<at, disk, entry, uncaught>>
    /\ UNCHANGED <<energy_vars, tracker_vars>>

NextGradebook ==
    \/ gradebook_script
    \/ gradebook_main
    \/ choice_1
    \/ choice_2
    \/ choice_3
    \/ choice_4
    \/ invalid_choice

SpecGradebook == InitGradebook /\ [][NextGradebook]_vars

\* append_student_record(AppendTarget)
append_student_record ==
    /\ entry = "append_student_record()"
    /\ at = "call"
    /\ LET r == AppendStudentRecord(disk, AppendTarget, stdin)
       IN /\ r.returned
          /\ stdin' = r.rest
          /\ stdout' = stdout \o r.out
          /\ disk' = r.disk
    /\ UNCHANGED <<at, entry, uncaught>>
    /\ UNCHANGED <<energy_vars, tracker_vars>>

NextAppend == append_student_record

SpecAppend == InitAppend /\ [][NextAppend]_vars

-----------------------------------------------------------------------------
(* gradebook.py: the menu, and the records added to a file *)

\* The step reads a choice at the menu.
ReadsChoice == at = "menu" /\ stdin # <<>> /\ stdin' # stdin

\* C13: run as a script, gradebook.py enters the loop of the menu; a choice of
\* 1, 2 or 3 is carried out and the menu is shown again, any other line but 4
\* only shows the menu again, and the program ends only when 4 is chosen.
C13_MenuLoop ==
    [][ /\ (entry = "gradebook.py" /\ at = "module") =>
              (at' = "menu" /\ stdout' = stdout \o Banner)
        /\ at' # "raised"
        /\ (at' = "exited" /\ at # "exited") => (ReadsChoice /\ choice = "4")
        /\ ReadsChoice =>
              /\ choice \in {"1", "2", "3"} =>
                    /\ at' = "menu"
                    /\ Len(stdout') >= Len(stdout) + 5
                    /\ SubSeq(stdout', Len(stdout') - 3, Len(stdout')) = Menu
              /\ choice \notin {"1", "2", "3", "4"} =>
                    /\ at' = "menu"
                    /\ disk' = disk
                    /\ stdin' = Tail(stdin)
                    /\ stdout' = stdout \o <<Printed("Invalid choice. Try again.")>> \o Menu
              /\ choice = "4" => at' = "exited"
      ]_vars

\* The step is a call of append_student_record that has returned.
Appends == entry = "append_student_record()" /\ stdin' # stdin

\* The marks typed are a number from 0 to 100.
ValidMarks(raw) ==
    /\ float(strip(raw)).raises = "none"
    /\ ~float(strip(raw)).value.nan
    /\ float(strip(raw)).value.v \in 0..100

\* The rows of the file before the call; none when there is no such file.
RowsBefore == IF exists(disk, AppendTarget) THEN disk[AppendTarget].rows ELSE <<>>

\* C14: a call of append_student_record leaves the working directory as it was
\* when the name typed is empty, or the marks typed are not a number, or are a
\* number outside 0..100; otherwise (and when the file can be written) it adds
\* exactly one record to the file, behind the header Name,Marks when the file
\* did not exist before and with no header when it did.
C14_AppendOnlyValid ==
    [][ Appends =>
          IF strip(stdin[1]) = "" \/ ~ValidMarks(stdin[2])
          THEN disk' = disk
          ELSE (exists(disk, AppendTarget) => disk[AppendTarget].kind = "file") =>
                  /\ DOMAIN disk' = DOMAIN disk \cup {AppendTarget}
                  /\ disk'[AppendTarget].kind = "file"
                  /\ Len(disk'[AppendTarget].rows)
                         = Len(RowsBefore) + (IF exists(disk, AppendTarget) THEN 1 ELSE 2)
                  /\ SubSeq(disk'[AppendTarget].rows, 1, Len(RowsBefore)) = RowsBefore
                  /\ ~exists(disk, AppendTarget) =>
                         disk'[AppendTarget].rows[1] = <<"Name", "Marks">>
                  /\ disk'[AppendTarget].rows[Len(disk'[AppendTarget].rows)]
                         = <<strip(stdin[1]), str(float(strip(stdin[2])).value)>>
      ]_vars

-----------------------------------------------------------------------------
(* tracker.py: the daily calorie tracker *)

\* Meal lines typed after the meal count and the limit.
MaxMeals == 2

\* int(s): the integer the text denotes, or ValueError.
int(s) ==
    CASE s = "0" -> [raises |-> "none", value |-> 0]
      [] s = "1" -> [raises |-> "none", value |-> 1]
      [] s = "2" -> [raises |-> "none", value |-> 2]
      [] s = "3" -> [raises |-> "none", value |-> 3]
      [] s = "4" -> [raises |-> "none", value |-> 4]
      [] OTHER -> [raises |-> "ValueError", value |-> 0]

\* entry.split(',')
split(s) ==
    CASE s = "rice, 1" -> <<"rice", " 1">>
      [] s = "dal,2" -> <<"dal", "2">>
      [] OTHER -> <<s>>

\* s.upper()
upper(s) ==
    CASE s = "rice" -> "RICE"
      [] s = "dal" -> "DAL"
      [] OTHER -> s

\* sum(meal_calories)
RECURSIVE sum(_)
sum(floats) ==
    IF floats = <<>> THEN Float(0)
    ELSE LET before == sum(SubSeq(floats, 1, Len(floats) - 1))
             x == floats[Len(floats)]
         IN IF before.nan \/ x.nan THEN float_nan ELSE Float(before.v + x.v)

\* What may be typed for the meal count, the limit, a meal and the last question.
CountLines == {"0", "1", "2", "3", "two"}

LimitLines == {"2", "50", "lots"}

MealLines == {"rice, 1", "dal,2", "tea"}

SaveLines == {"Yes", "no"}

\* The lines typed at tracker.py: a count, a limit, up to n meals, and the answer.
TrackerInputs(n) ==
    {<<x[1], x[2]>> \o x[3] \o <<x[4]>> :
        x \in CountLines \X LimitLines \X SeqsUpTo(MealLines, n) \X SaveLines}

\* The table of the meals, as it is printed and as it is written to the report.
MealTable(names, calories) ==
    [i \in DOMAIN names |-> Line("meal", names[i], calories[i])]

\* The rows of calorie_log.txt.
ReportRows(names, calories, total, avg, lim) ==
    <<(<<"===== DAILY CALORIE TRACKER REPORT =====">>),
      (<<"NAME: Avijit">>), (<<"ROLL NUMBER: 2501730308">>), (<<"DATE">>),
      (<<"S.NO", "MEAL NAME", "CALORIES">>)>> \o
    [i \in DOMAIN names |-> <<i, names[i], calories[i]>>] \o
    <<(<<"Total Calories Consumed", total>>),
      (<<"Average Calories per Meal", avg>>),
      (<<"Daily Calorie Limit", lim>>),
      (<<"STATUS", IF Less(lim, total) THEN "Exceeded Limit" ELSE "Within Limit">>)>>

\* tracker.py is run, with the lines typed at it.
InitTracker ==
    /\ NoPipeline
    /\ NoTracker
    /\ entry = "tracker.py"
    /\ at = "start"
    /\ stdin \in TrackerInputs(MaxMeals)
    /\ stdout = <<>>
    /\ disk = <<>>
    /\ uncaught = "none"

\* Lines 4-22: the header, and the meal count and the limit read from the input.
read_inputs ==
    /\ entry = "tracker.py"
    /\ at = "start"
    /\ stdin # <<>>
    /\ stdout' = stdout \o <<Printed("WELCOME TO DAILY CALORIE TRACKER"),
                             Printed("STUDENT NAME: Avijit"), Printed("ROLL NO: 2501730308"),
                             Printed("DATE")>>
    /\ IF int(strip(stdin[1])).raises # "none"
       THEN /\ at' = "raised"
            /\ uncaught' = int(strip(stdin[1])).raises
            /\ stdin' = Tail(stdin)
            /\ UNCHANGED <<total_meals, limit>>
       ELSE /\ Len(stdin) >= 2
            /\ total_meals' = int(strip(stdin[1])).value
            /\ stdin' = SubSeq(stdin, 3, Len(stdin))
            /\ IF float(strip(stdin[2])).raises # "none"
               THEN /\ at' = "raised"
                    /\ uncaught' = float(strip(stdin[2])).raises
                    /\ limit' = limit
               ELSE /\ at' = "meals"
                    /\ uncaught' = "none"
                    /\ limit' = float(strip(stdin[2])).value
    /\ UNCHANGED <<entry, disk, meal_names, meal_calories, total_cal, avg_cal>>
    /\ UNCHANGED energy_vars

\* Lines 25-29: one pass of the loop that reads the meals.
read_meal ==
    /\ entry = "tracker.py"
    /\ at = "meals"
    /\ Len(meal_names) < total_meals
    /\ stdin # <<>>
    /\ stdin' = Tail(stdin)
    /\ LET parts == split(strip(stdin[1]))
       IN IF Len(parts) # 2
          THEN /\ at' = "raised"
               /\ uncaught' = "ValueError"
               /\ UNCHANGED <<meal_names, meal_calories>>
          ELSE /\ meal_names' = Append(meal_names, upper(strip(parts[1])))
               /\ IF float(strip(parts[2])).raises # "none"
                  THEN /\ at' = "raised"
                       /\ uncaught' = float(strip(parts[2])).raises
                       /\ meal_calories' = meal_calories
                  ELSE /\ at' = "meals"
                       /\ uncaught' = "none"
                       /\ meal_calories' = Append(meal_calories, float(strip(parts[2])).value)
    /\ UNCHANGED <<entry, stdout, disk, total_meals, limit, total_cal, avg_cal>>
    /\ UNCHANGED energy_vars

\* Lines 31-44: the table of the meals, the total and the average.
show_totals ==
    /\ entry = "tracker.py"
    /\ at = "meals"
    /\ Len(meal_names) >= total_meals
    /\ total_cal' = sum(meal_calories)
    /\ IF Len(meal_calories) = 0
       THEN /\ at' = "raised"
            /\ uncaught' = "ZeroDivisionError"
            /\ avg_cal' = avg_cal
            /\ stdout' = stdout \o <<Printed("S.NO MEAL NAME CALORIES")>> \o
                         MealTable(meal_names, meal_calories)
       ELSE /\ at' = "status"
            /\ uncaught' = "none"
            /\ avg_cal' = IF sum(meal_calories).nan THEN float_nan
                          ELSE Quotient(sum(meal_calories).v, Len(meal_calories))
            /\ stdout' = stdout \o <<Printed("S.NO MEAL NAME CALORIES")>> \o
                         MealTable(meal_names, meal_calories) \o
                         <<Line("Total Calories Consumed", "", total_cal'),
                           Line("Average Calories per Meal", "", avg_cal')>>
    /\ UNCHANGED <<entry, stdin, disk, total_meals, limit, meal_names, meal_calories>>
    /\ UNCHANGED energy_vars

\* Lines 47-50: the status check.
status_check ==
    /\ entry = "tracker.py"
    /\ at = "status"
    /\ stdout' = Append(stdout,
                        IF Less(limit, total_cal)
                        THEN Printed("YOU HAVE EXCEEDED YOUR DAILY CALORIE LIMIT.")
                        ELSE Printed("YOU ARE WITHIN YOUR DAILY CALORIE LIMIT."))
    /\ at' = "save"
    /\ UNCHANGED <<entry, stdin, disk, uncaught>>
    /\ UNCHANGED <<energy_vars, tracker_vars>>

\* Lines 53-69: the report is saved when the answer is yes.
save_report ==
    /\ entry = "tracker.py"
    /\ at = "save"
    /\ stdin # <<>>
    /\ stdin' = Tail(stdin)
    /\ IF lower(strip(stdin[1])) = "yes"
       THEN /\ disk' = Written(disk, "calorie_log.txt",
                               File(ReportRows(meal_names, meal_calories, total_cal,
                                               avg_cal, limit)))
            /\ stdout' = Append(stdout, Printed("Report saved successfully."))
       ELSE /\ disk' = disk
            /\ stdout' = Append(stdout, Printed("Report not saved."))
    /\ at' = "done"
    /\ UNCHANGED <<entry, uncaught>>
    /\ UNCHANGED <<energy_vars, tracker_vars>>

NextTracker ==
    \/ read_inputs
    \/ read_meal
    \/ show_totals
    \/ status_check
    \/ save_report

SpecTracker == InitTracker /\ [][NextTracker]_vars

\* The sum of the calories at the places S of meal_calories.
RECURSIVE CaloriesOver(_)
CaloriesOver(S) ==
    IF S = {} THEN 0
    ELSE LET i == CHOOSE i \in S : TRUE IN meal_calories[i].v + CaloriesOver(S \ {i})

\* C15: once total_meals entries, none or more, have been read without an
\* error, the script goes on to the status check with no exception: the average
\* is the total divided by the number of meals, never a division by zero; and
\* the status check prints the exceeded line exactly when the sum of the
\* calories is greater than the limit.
C15_StatusWithoutError ==
    [][ /\ (entry = "tracker.py" /\ at = "meals" /\ Len(meal_calories) = total_meals
            /\ at' # "meals") =>
              /\ at' = "status"
              /\ uncaught' = "none"
              /\ total_cal'.v = CaloriesOver(DOMAIN meal_calories)
              /\ avg_cal'.num * Len(meal_calories) = avg_cal'.den * total_cal'.v
        /\ (entry = "tracker.py" /\ at = "status" /\ at' # "status") =>
              /\ at' = "save"
              /\ (stdout'[Len(stdout')].text = "YOU HAVE EXCEEDED YOUR DAILY CALORIE LIMIT.")
                     <=> (CaloriesOver(DOMAIN meal_calories) > limit.v)
      ]_vars

====
